---- MODULE Spec2Model ----
(***************************************************************************)
(* Model of the lexical analyser LA.cpp.                                   *)
(*                                                                         *)
(* Characters are their ASCII codes, so that the range tests of isLetter   *)
(* and isDigit are the comparisons the code makes.  A string is a sequence *)
(* of codes; the code's 0-based index i addresses element i + 1.           *)
(* lexicalAnalysis is modelled statement by statement: one action for each *)
(* way through the body of the outer loop, and one action per turn of the  *)
(* two accumulation loops.                                                 *)
(***************************************************************************)
EXTENDS Integers, Sequences, FiniteSets, TLC

(***************************************************************************)
(* Bounds of the model.                                                    *)
(***************************************************************************)
\* an input is the concatenation of at most MaxPieces pieces of Pieces
MaxPieces == 3
\* and is at most MaxSrcLen characters long
MaxSrcLen == 6
\* lexicalAnalysis is called at most MaxCalls times on the same input
MaxCalls == 2

(***************************************************************************)
(* Character classes, LA.cpp:19-43.                                        *)
(***************************************************************************)
isLetter(c) == (c >= 97 /\ c <= 122) \/ (c >= 65 /\ c <= 90)

isDigit(c) == c >= 48 /\ c <= 57

\* isWhitespace without the carriage return
isWhitespaceNoCR(c) == c = 32 \/ c = 9 \/ c = 10

isWhitespace(c) == c = 32 \/ c = 9 \/ c = 10 \/ c = 13

\* "int", "float", "if", "else", "while", "return", "void"
KEYWORDS ==
    { <<105, 110, 116>>,
      <<102, 108, 111, 97, 116>>,
      <<105, 102>>,
      <<101, 108, 115, 101>>,
      <<119, 104, 105, 108, 101>>,
      <<114, 101, 116, 117, 114, 110>>,
      <<118, 111, 105, 100>> }

isKeyword(lexeme) == lexeme \in KEYWORDS

\* '+', '-', '*', '/', '=', '>', '<', ';', '(', ')', '{', '}'
SINGLE_CHAR_TOKENS == {43, 45, 42, 47, 61, 62, 60, 59, 40, 41, 123, 125}

Token(type, value) == [type |-> type, value |-> value]

\* sourceCode[i] of the code, i counted from 0
At(s, i) == s[i + 1]

\* LA.cpp:76-80, the kind of an accumulated word
WordType(lexeme) == IF isKeyword(lexeme) THEN "KEYWORD" ELSE "IDENTIFIER"

\* the test of the identifier loop accepting letters only
IdentifierContinuesLettersOnly(s, i) == i < Len(s) /\ isLetter(At(s, i))

\* the test of the identifier loop running over whitespace
IdentifierContinuesOverBlank(s, i) ==
    i < Len(s) /\ (isLetter(At(s, i)) \/ isDigit(At(s, i)) \/ isWhitespace(At(s, i)))

\* LA.cpp:70, the test of the identifier loop
IdentifierContinues(s, i) ==
    i < Len(s) /\ (isLetter(At(s, i)) \/ isDigit(At(s, i)))

\* the test of the integer loop copied from the identifier loop
IntegerContinuesAlnum(s, i) ==
    i < Len(s) /\ (isLetter(At(s, i)) \/ isDigit(At(s, i)))

\* LA.cpp:91, the test of the integer loop
IntegerContinues(s, i) == i < Len(s) /\ isDigit(At(s, i))

\* the lookahead test made for '=' only
TwoCharRelationalEqualsOnly(s, i) ==
    At(s, i) = 61 /\ i + 1 < Len(s) /\ At(s, i + 1) = 61

\* LA.cpp:106-107, the lookahead test for ==, <=, >=
TwoCharRelational(s, i) ==
    /\ (At(s, i) = 61 \/ At(s, i) = 60 \/ At(s, i) = 62)
    /\ i + 1 < Len(s)
    /\ At(s, i + 1) = 61

\* SingleCharType without the case of line 118
SingleCharTypeNoAssignment(c, token_value) ==
    IF c = 43 \/ c = 45 \/ c = 42 THEN "ARITHMETIC_OPERATOR"
    ELSE "DELIMITER"

\* SingleCharType that reports a lone '<' or '>' as a relational operator
SingleCharTypeLoneRelational(c, token_value) ==
    IF c = 43 \/ c = 45 \/ c = 42 THEN "ARITHMETIC_OPERATOR"
    ELSE IF c = 61 /\ Len(token_value) = 1 THEN "ASSIGNMENT_OPERATOR"
    ELSE IF c = 60 \/ c = 62 THEN "RELATIONAL_OPERATOR"
    ELSE "DELIMITER"

\* LA.cpp:116-122, the kind of a single-character token; token_value is the
\* one-character string built at line 102
SingleCharType(c, token_value) ==
    IF c = 43 \/ c = 45 \/ c = 42 THEN "ARITHMETIC_OPERATOR"
    ELSE IF c = 61 /\ Len(token_value) = 1 THEN "ASSIGNMENT_OPERATOR"
    ELSE "DELIMITER"

\* the reads of a lookahead test that does not compare i + 1 with the length
\* before it reads
LookaheadReadsUnguarded(s, i) ==
    IF At(s, i) = 61 \/ At(s, i) = 60 \/ At(s, i) = 62 THEN {i + 1} ELSE {}

\* The source positions the test at LA.cpp:106-107 reads at cursor i: the
\* conjunction is short-circuit, sourceCode[i + 1] is read only when the
\* first two conjuncts hold.
LookaheadReads(s, i) ==
    IF (At(s, i) = 61 \/ At(s, i) = 60 \/ At(s, i) = 62) /\ i + 1 < Len(s)
    THEN {i + 1} ELSE {}

(***************************************************************************)
(* The inputs of the model.                                                *)
(***************************************************************************)
Pieces ==
    { <<32>>,                           \* " "
      <<9, 10, 13>>,                    \* "\t\n\r"
      <<102>>,                          \* "f"
      <<73, 102>>,                      \* "If"
      <<48, 57>>,                       \* "09"
      <<61>>,                           \* "="
      <<60>>,                           \* "<"
      <<62>>,                           \* ">"
      <<43, 45, 42>>,                   \* "+-*"
      <<47, 59>>,                       \* "/;"
      <<40, 41, 123, 125>>,             \* "(){}"
      <<64>>,                           \* "@"
      <<33, 95>> } \cup KEYWORDS        \* "!_"

RECURSIVE Concat(_)
Concat(ps) == IF ps = <<>> THEN <<>> ELSE Head(ps) \o Concat(Tail(ps))

Inputs ==
    { s \in { Concat(ps) : ps \in UNION { [1..n -> Pieces] : n \in 0..MaxPieces } } :
        Len(s) <= MaxSrcLen }

(***************************************************************************)
(* State.                                                                  *)
(***************************************************************************)
VARIABLES
    sourceCode,       \* the argument of lexicalAnalysis
    tokens,           \* the vector being built
    current_index,    \* the scan cursor
    current_lexeme,   \* the lexeme of the accumulation loop in progress
    pc,               \* "loop": at the test of the outer loop (line 53);
                      \* "ident": at the test of the identifier loop (line 70);
                      \* "int": at the test of the integer loop (line 91);
                      \* "done": returned (line 132);
                      \* "uncalled": main has not called it yet
    reads,            \* the positions of sourceCode read by the last step
    iter_start,       \* the cursor at the start of the current outer iteration
    spans,            \* for each token, the cursor before and after its iteration
    call,             \* the number of the current call
    step,             \* the number of steps taken in the current call
    trace,            \* cursor and tokens after each step of the first call
    returned,         \* the values returned so far, one per finished call
    main_pc,          \* where main is: "open" (line 146), "read" (line 155),
                      \* "analyse" (line 164), "called" (in lexicalAnalysis),
                      \* "exit0" (line 183), "exit1" (line 151)
    file,             \* the file the user names: whether it opens, whether
                      \* it can be read to its end, and its contents
    printed,          \* the tokens main has printed
    error_reported    \* whether main has written its error message

mainVars == << main_pc, file, printed, error_reported >>

vars == << sourceCode, tokens, current_index, current_lexeme, pc, reads,
           iter_start, spans, call, step, trace, returned, mainVars >>

Snapshot(i, toks) == [index |-> i, tokens |-> toks]

\* The observation of one step: it is counted, and in the first call the
\* cursor and the tokens it leaves are recorded.
Observe(i, toks) ==
    /\ step' = step + 1
    /\ trace' = IF call = 1 THEN Append(trace, Snapshot(i, toks)) ELSE trace

\* LA.cpp:50-51
Init ==
    /\ sourceCode \in Inputs
    /\ tokens = <<>>
    /\ current_index = 0
    /\ current_lexeme = <<>>
    /\ pc = "loop"
    /\ reads = {}
    /\ iter_start = 0
    /\ spans = <<>>
    /\ call = 1
    /\ step = 0
    /\ trace = << Snapshot(0, <<>>) >>
    /\ returned = <<>>
    /\ main_pc = "called"
    /\ file = [opens |-> TRUE, readable |-> TRUE, contents |-> sourceCode]
    /\ printed = <<>>
    /\ error_reported = FALSE

\* Emit that inserts the token at the front of the vector
EmitAtFront(type, value, newIndex) ==
    /\ tokens' = << Token(type, value) >> \o tokens
    /\ spans' = << [from |-> iter_start, to |-> newIndex] >> \o spans
    /\ Observe(newIndex, << Token(type, value) >> \o tokens)

\* tokens.push_back at the end of an outer iteration begun at iter_start
Emit(type, value, newIndex) ==
    /\ tokens' = Append(tokens, Token(type, value))
    /\ spans' = Append(spans, [from |-> iter_start, to |-> newIndex])
    /\ Observe(newIndex, Append(tokens, Token(type, value)))

\* LA.cpp:53, 132: the loop test fails, the vector is returned
LoopExit ==
    /\ pc = "loop"
    /\ ~(current_index < Len(sourceCode))
    /\ pc' = "done"
    /\ reads' = {}
    /\ returned' = Append(returned, tokens)
    /\ Observe(current_index, tokens)
    /\ UNCHANGED << sourceCode, tokens, current_index, current_lexeme,
                    iter_start, spans, call >>
    /\ UNCHANGED mainVars

\* SkipWhitespace that keeps the whitespace character as a token
SkipWhitespaceEmits ==
    /\ pc = "loop"
    /\ current_index < Len(sourceCode)
    /\ LET current_char == At(sourceCode, current_index) IN
        /\ isWhitespace(current_char)
        /\ current_index' = current_index + 1
        /\ iter_start' = current_index + 1
        /\ reads' = {current_index}
        /\ Emit("WHITESPACE", << current_char >>, current_index + 1)
    /\ UNCHANGED << sourceCode, current_lexeme, pc, call, returned >>
    /\ UNCHANGED mainVars

\* LA.cpp:53-60
SkipWhitespace ==
    /\ pc = "loop"
    /\ current_index < Len(sourceCode)
    /\ LET current_char == At(sourceCode, current_index) IN
        /\ isWhitespace(current_char)
        /\ current_index' = current_index + 1
        /\ iter_start' = current_index + 1
        /\ reads' = {current_index}
        /\ Observe(current_index + 1, tokens)
    /\ UNCHANGED << sourceCode, tokens, current_lexeme, pc, spans, call, returned >>
    /\ UNCHANGED mainVars

\* BeginIdentifier with line 66 left out: the lexeme starts empty
BeginIdentifierEmptyLexeme ==
    /\ pc = "loop"
    /\ current_index < Len(sourceCode)
    /\ LET current_char == At(sourceCode, current_index) IN
        /\ ~isWhitespace(current_char)
        /\ isLetter(current_char)
        /\ current_lexeme' = <<>>
        /\ current_index' = current_index + 1
        /\ pc' = "ident"
        /\ reads' = {current_index}
        /\ Observe(current_index + 1, tokens)
    /\ UNCHANGED << sourceCode, tokens, iter_start, spans, call, returned >>
    /\ UNCHANGED mainVars

\* LA.cpp:53-54, 64-67
BeginIdentifier ==
    /\ pc = "loop"
    /\ current_index < Len(sourceCode)
    /\ LET current_char == At(sourceCode, current_index) IN
        /\ ~isWhitespace(current_char)
        /\ isLetter(current_char)
        /\ current_lexeme' = << current_char >>
        /\ current_index' = current_index + 1
        /\ pc' = "ident"
        /\ reads' = {current_index}
        /\ Observe(current_index + 1, tokens)
    /\ UNCHANGED << sourceCode, tokens, iter_start, spans, call, returned >>
    /\ UNCHANGED mainVars

\* IdentifierAppend with line 71 left out: the cursor moves on and the
\* character is not added to the lexeme
IdentifierAppendDropsChar ==
    /\ pc = "ident"
    /\ IdentifierContinues(sourceCode, current_index)
    /\ current_index' = current_index + 1
    /\ reads' = {current_index}
    /\ Observe(current_index + 1, tokens)
    /\ UNCHANGED << sourceCode, tokens, current_lexeme, pc, iter_start, spans,
                    call, returned >>
    /\ UNCHANGED mainVars

\* LA.cpp:70-73
IdentifierAppend ==
    /\ pc = "ident"
    /\ IdentifierContinues(sourceCode, current_index)
    /\ current_lexeme' = Append(current_lexeme, At(sourceCode, current_index))
    /\ current_index' = current_index + 1
    /\ reads' = {current_index}
    /\ Observe(current_index + 1, tokens)
    /\ UNCHANGED << sourceCode, tokens, pc, iter_start, spans, call, returned >>
    /\ UNCHANGED mainVars

\* IdentifierAccept that steps the cursor back onto the last character of
\* the word
IdentifierAcceptUnget ==
    /\ pc = "ident"
    /\ ~IdentifierContinues(sourceCode, current_index)
    /\ Emit(WordType(current_lexeme), current_lexeme, current_index - 1)
    /\ reads' = IF current_index < Len(sourceCode) THEN {current_index} ELSE {}
    /\ pc' = "loop"
    /\ current_index' = current_index - 1
    /\ iter_start' = current_index - 1
    /\ current_lexeme' = <<>>
    /\ UNCHANGED << sourceCode, call, returned >>
    /\ UNCHANGED mainVars

\* LA.cpp:70, 76-81
IdentifierAccept ==
    /\ pc = "ident"
    /\ ~IdentifierContinues(sourceCode, current_index)
    /\ Emit(WordType(current_lexeme), current_lexeme, current_index)
    /\ reads' = IF current_index < Len(sourceCode) THEN {current_index} ELSE {}
    /\ pc' = "loop"
    /\ iter_start' = current_index
    /\ current_lexeme' = <<>>
    /\ UNCHANGED << sourceCode, current_index, call, returned >>
    /\ UNCHANGED mainVars

\* LA.cpp:53-54, 85-88
BeginInteger ==
    /\ pc = "loop"
    /\ current_index < Len(sourceCode)
    /\ LET current_char == At(sourceCode, current_index) IN
        /\ ~isWhitespace(current_char)
        /\ ~isLetter(current_char)
        /\ isDigit(current_char)
        /\ current_lexeme' = << current_char >>
        /\ current_index' = current_index + 1
        /\ pc' = "int"
        /\ reads' = {current_index}
        /\ Observe(current_index + 1, tokens)
    /\ UNCHANGED << sourceCode, tokens, iter_start, spans, call, returned >>
    /\ UNCHANGED mainVars

\* LA.cpp:91-94
IntegerAppend ==
    /\ pc = "int"
    /\ IntegerContinues(sourceCode, current_index)
    /\ current_lexeme' = Append(current_lexeme, At(sourceCode, current_index))
    /\ current_index' = current_index + 1
    /\ reads' = {current_index}
    /\ Observe(current_index + 1, tokens)
    /\ UNCHANGED << sourceCode, tokens, pc, iter_start, spans, call, returned >>
    /\ UNCHANGED mainVars

\* LA.cpp:91, 97-98
IntegerAccept ==
    /\ pc = "int"
    /\ ~IntegerContinues(sourceCode, current_index)
    /\ Emit("INTEGER", current_lexeme, current_index)
    /\ reads' = IF current_index < Len(sourceCode) THEN {current_index} ELSE {}
    /\ pc' = "loop"
    /\ iter_start' = current_index
    /\ current_lexeme' = <<>>
    /\ UNCHANGED << sourceCode, current_index, call, returned >>
    /\ UNCHANGED mainVars

\* LA.cpp:53-54, 101-112
RelationalOperator ==
    /\ pc = "loop"
    /\ current_index < Len(sourceCode)
    /\ LET current_char == At(sourceCode, current_index)
           token_value == << current_char >>
       IN
        /\ ~isWhitespace(current_char)
        /\ ~isLetter(current_char)
        /\ ~isDigit(current_char)
        /\ current_char \in SINGLE_CHAR_TOKENS
        /\ TwoCharRelational(sourceCode, current_index)
        /\ current_index' = current_index + 2
        /\ iter_start' = current_index + 2
        /\ Emit("RELATIONAL_OPERATOR",
                Append(token_value, At(sourceCode, current_index + 1)),
                current_index + 2)
        /\ reads' = {current_index} \cup LookaheadReads(sourceCode, current_index)
    /\ UNCHANGED << sourceCode, current_lexeme, pc, call, returned >>
    /\ UNCHANGED mainVars

\* LA.cpp:53-54, 101-107, 113-124
SingleCharToken ==
    /\ pc = "loop"
    /\ current_index < Len(sourceCode)
    /\ LET current_char == At(sourceCode, current_index)
           token_value == << current_char >>
       IN
        /\ ~isWhitespace(current_char)
        /\ ~isLetter(current_char)
        /\ ~isDigit(current_char)
        /\ current_char \in SINGLE_CHAR_TOKENS
        /\ ~TwoCharRelational(sourceCode, current_index)
        /\ current_index' = current_index + 1
        /\ iter_start' = current_index + 1
        /\ Emit(SingleCharType(current_char, token_value), token_value,
                current_index + 1)
        /\ reads' = {current_index} \cup LookaheadReads(sourceCode, current_index)
    /\ UNCHANGED << sourceCode, current_lexeme, pc, call, returned >>
    /\ UNCHANGED mainVars

\* ErrorToken with line 129 left out: the cursor stays on the character
ErrorTokenNoAdvance ==
    /\ pc = "loop"
    /\ current_index < Len(sourceCode)
    /\ LET current_char == At(sourceCode, current_index) IN
        /\ ~isWhitespace(current_char)
        /\ ~isLetter(current_char)
        /\ ~isDigit(current_char)
        /\ current_char \notin SINGLE_CHAR_TOKENS
        /\ Emit("ERROR", << current_char >>, current_index)
        /\ reads' = {current_index}
    /\ UNCHANGED << sourceCode, current_index, current_lexeme, pc, iter_start,
                    call, returned >>
    /\ UNCHANGED mainVars

\* ErrorToken that ends the analysis at the first invalid character
ErrorTokenAborts ==
    /\ pc = "loop"
    /\ current_index < Len(sourceCode)
    /\ LET current_char == At(sourceCode, current_index) IN
        /\ ~isWhitespace(current_char)
        /\ ~isLetter(current_char)
        /\ ~isDigit(current_char)
        /\ current_char \notin SINGLE_CHAR_TOKENS
        /\ current_index' = current_index + 1
        /\ iter_start' = current_index + 1
        /\ Emit("ERROR", << current_char >>, current_index + 1)
        /\ returned' = Append(returned, Append(tokens, Token("ERROR", << current_char >>)))
        /\ reads' = {current_index}
    /\ pc' = "done"
    /\ UNCHANGED << sourceCode, current_lexeme, call >>
    /\ UNCHANGED mainVars

\* LA.cpp:53-54, 127-130
ErrorToken ==
    /\ pc = "loop"
    /\ current_index < Len(sourceCode)
    /\ LET current_char == At(sourceCode, current_index) IN
        /\ ~isWhitespace(current_char)
        /\ ~isLetter(current_char)
        /\ ~isDigit(current_char)
        /\ current_char \notin SINGLE_CHAR_TOKENS
        /\ current_index' = current_index + 1
        /\ iter_start' = current_index + 1
        /\ Emit("ERROR", << current_char >>, current_index + 1)
        /\ reads' = {current_index}
    /\ UNCHANGED << sourceCode, current_lexeme, pc, call, returned >>
    /\ UNCHANGED mainVars

\* Call with a vector that outlives the call (a static or global tokens)
CallKeepsTokens ==
    /\ pc = "done"
    /\ call < MaxCalls
    /\ call' = call + 1
    /\ current_index' = 0
    /\ current_lexeme' = <<>>
    /\ pc' = "loop"
    /\ reads' = {}
    /\ iter_start' = 0
    /\ step' = 0
    /\ UNCHANGED << sourceCode, tokens, spans, trace, returned >>
    /\ UNCHANGED mainVars

\* LA.cpp:49-51: lexicalAnalysis is called again on the same string; its
\* locals are constructed anew.
Call ==
    /\ pc = "done"
    /\ call < MaxCalls
    /\ call' = call + 1
    /\ tokens' = <<>>
    /\ current_index' = 0
    /\ current_lexeme' = <<>>
    /\ pc' = "loop"
    /\ reads' = {}
    /\ iter_start' = 0
    /\ spans' = <<>>
    /\ step' = 0
    /\ UNCHANGED << sourceCode, trace, returned >>
    /\ UNCHANGED mainVars

Next ==
    \/ LoopExit
    \/ SkipWhitespace
    \/ BeginIdentifier
    \/ IdentifierAppend
    \/ IdentifierAccept
    \/ BeginInteger
    \/ IntegerAppend
    \/ IntegerAccept
    \/ RelationalOperator
    \/ SingleCharToken
    \/ ErrorToken
    \/ Call

Spec == Init /\ [][Next]_vars

\* The statements of one call run one after the other until it returns, and
\* a caller may call again.
FairSpec == Spec /\ WF_vars(Next)

(***************************************************************************)
(* main, LA.cpp:139-184: the file is opened, read into sourceCode, analysed *)
(* and the tokens are printed.  The file is the environment: it may fail to *)
(* open, and a file that opens may fail to be read to its end (a directory, *)
(* an I/O error); main tests only is_open().                                *)
(***************************************************************************)
Files ==
    { [opens |-> FALSE, readable |-> FALSE, contents |-> <<>>] }
        \cup { [opens |-> TRUE, readable |-> r, contents |-> c] :
                    r \in BOOLEAN, c \in Inputs }

\* LA.cpp:140-143: the file name has been read, nothing else has happened
MainInit ==
    /\ file \in Files
    /\ main_pc = "open"
    /\ printed = <<>>
    /\ error_reported = FALSE
    /\ sourceCode = <<>>
    /\ tokens = <<>>
    /\ current_index = 0
    /\ current_lexeme = <<>>
    /\ pc = "uncalled"
    /\ reads = {}
    /\ iter_start = 0
    /\ spans = <<>>
    /\ call = 0
    /\ step = 0
    /\ trace = << Snapshot(0, <<>>) >>
    /\ returned = <<>>

lexerVars == << tokens, current_index, current_lexeme, pc, reads, iter_start,
                spans, call, step, trace, returned >>

\* LA.cpp:146-152: the file does not open; the error is written, main returns 1
OpenFails ==
    /\ main_pc = "open"
    /\ ~file.opens
    /\ error_reported' = TRUE
    /\ main_pc' = "exit1"
    /\ UNCHANGED << sourceCode, lexerVars, file, printed >>

\* LA.cpp:146-149: the file opens
OpenFile ==
    /\ main_pc = "open"
    /\ file.opens
    /\ main_pc' = "read"
    /\ UNCHANGED << sourceCode, lexerVars, file, printed, error_reported >>

\* LA.cpp:155-161: the stream buffer is copied into sourceCode; a read that
\* fails ends the copy with the characters got so far, and nothing tests it
ReadFile ==
    /\ main_pc = "read"
    /\ \E n \in 0..Len(file.contents) :
        /\ file.readable => n = Len(file.contents)
        /\ ~file.readable => (n < Len(file.contents) \/ Len(file.contents) = 0)
        /\ sourceCode' = SubSeq(file.contents, 1, n)
    /\ main_pc' = "analyse"
    /\ UNCHANGED << lexerVars, file, printed, error_reported >>

\* LA.cpp:164, 49-51: lexicalAnalysis is called with sourceCode
Invoke ==
    /\ main_pc = "analyse"
    /\ main_pc' = "called"
    /\ call' = call + 1
    /\ tokens' = <<>>
    /\ current_index' = 0
    /\ current_lexeme' = <<>>
    /\ pc' = "loop"
    /\ reads' = {}
    /\ iter_start' = 0
    /\ spans' = <<>>
    /\ step' = 0
    /\ UNCHANGED << sourceCode, trace, returned, file, printed, error_reported >>

\* LA.cpp:164-183: the returned tokens are printed, main returns 0
PrintResults ==
    /\ main_pc = "called"
    /\ pc = "done"
    /\ printed' = returned[call]
    /\ main_pc' = "exit0"
    /\ UNCHANGED << sourceCode, lexerVars, file, error_reported >>

MainNext ==
    \/ OpenFails
    \/ OpenFile
    \/ ReadFile
    \/ Invoke
    \/ LoopExit
    \/ SkipWhitespace
    \/ BeginIdentifier
    \/ IdentifierAppend
    \/ IdentifierAccept
    \/ BeginInteger
    \/ IntegerAppend
    \/ IntegerAccept
    \/ RelationalOperator
    \/ SingleCharToken
    \/ ErrorToken
    \/ PrintResults

MainSpec == MainInit /\ [][MainNext]_vars

(***************************************************************************)
(* lexicalAnalysis as a function of its argument, LA.cpp:49-133: the loops *)
(* are recursions on the cursor.                                           *)
(***************************************************************************)
RECURSIVE IdentifierEnd(_, _)
\* LA.cpp:70-73, the cursor when the identifier loop ends
IdentifierEnd(s, i) ==
    IF IdentifierContinues(s, i) THEN IdentifierEnd(s, i + 1) ELSE i

RECURSIVE IntegerEnd(_, _)
\* LA.cpp:91-94, the cursor when the integer loop ends
IntegerEnd(s, i) ==
    IF IntegerContinues(s, i) THEN IntegerEnd(s, i + 1) ELSE i

RECURSIVE Scan(_, _, _)
\* LA.cpp:53-132, the outer loop from cursor i with the vector toks
Scan(s, i, toks) ==
    IF ~(i < Len(s)) THEN toks
    ELSE LET c == At(s, i) IN
        IF isWhitespace(c) THEN Scan(s, i + 1, toks)
        ELSE IF isLetter(c) THEN
            LET j == IdentifierEnd(s, i + 1)
                lexeme == SubSeq(s, i + 1, j)
            IN Scan(s, j, Append(toks, Token(WordType(lexeme), lexeme)))
        ELSE IF isDigit(c) THEN
            LET j == IntegerEnd(s, i + 1)
            IN Scan(s, j, Append(toks, Token("INTEGER", SubSeq(s, i + 1, j))))
        ELSE IF c \in SINGLE_CHAR_TOKENS THEN
            IF TwoCharRelational(s, i)
            THEN Scan(s, i + 2,
                      Append(toks, Token("RELATIONAL_OPERATOR", << c, At(s, i + 1) >>)))
            ELSE Scan(s, i + 1,
                      Append(toks, Token(SingleCharType(c, << c >>), << c >>)))
        ELSE Scan(s, i + 1, Append(toks, Token("ERROR", << c >>)))

lexicalAnalysis(s) == Scan(s, 0, <<>>)

(***************************************************************************)
(* Sanity of the model.                                                    *)
(***************************************************************************)
TypeOK ==
    /\ current_index \in 0..Len(sourceCode)
    /\ pc \in {"loop", "ident", "int", "done"}
    /\ Len(spans) = Len(tokens)
    /\ call \in 1..MaxCalls
    /\ Len(returned) = IF pc = "done" THEN call ELSE call - 1

\* the stepwise run and the function agree on what is returned
RunIsFunction == pc = "done" => tokens = lexicalAnalysis(sourceCode)

(***************************************************************************)
(* Vocabulary of the claims, written from their statements.                *)
(***************************************************************************)
\* space, tab, newline, carriage return
BlankChars == {32, 9, 10, 13}

\* the characters that are blank, a letter, a digit or a single-character token
\* are recognized; every other character is unrecognized
Unrecognized(c) ==
    /\ c \notin BlankChars
    /\ ~isLetter(c)
    /\ ~isDigit(c)
    /\ c \notin {43, 45, 42, 47, 61, 62, 60, 59, 40, 41, 123, 125}

RECURSIVE SkipBlanks(_, _)
\* the first position from i on that holds no blank character
SkipBlanks(s, i) ==
    IF i < Len(s) /\ At(s, i) \in BlankChars THEN SkipBlanks(s, i + 1) ELSE i

RECURSIVE Walk(_, _, _)
\* Walking s from position i, alternately skipping blanks and taking the
\* lexeme of the next token of toks, uses up toks and s together.
Walk(s, i, toks) ==
    LET j == SkipBlanks(s, i) IN
    IF toks = <<>> THEN j = Len(s)
    ELSE LET v == Head(toks).value IN
        /\ Len(v) >= 1
        /\ j + Len(v) <= Len(s)
        /\ SubSeq(s, j + 1, j + Len(v)) = v
        /\ Walk(s, j + Len(v), Tail(toks))

\* C1: when lexicalAnalysis returns, walking the source from position 0 and
\* alternately skipping the whitespace between tokens and taking the next
\* token's lexeme reproduces the source exactly: the lexemes are consecutive,
\* non-overlapping substrings in source order and every other character is a
\* space, tab, newline or carriage return.
C1_LosslessPartition ==
    pc = "done" =>
        /\ Walk(sourceCode, 0, tokens)
        /\ returned[call] = tokens

\* a returned run whose source has two tokens with whitespace between them
\* and a lexeme of several characters
C1_Witness ==
    /\ pc = "done"
    /\ \E k \in 1..(Len(spans) - 1) :
        /\ spans[k + 1].from > spans[k].to
        /\ Len(tokens[k].value) >= 2

\* the measure that every step of a call decreases
Measure ==
    3 * (Len(sourceCode) - current_index)
        + (CASE pc = "done" -> 0
             [] pc = "loop" -> 1
             [] OTHER -> 2)

\* C2: for every input string lexicalAnalysis terminates and returns a token
\* sequence: a call in progress always has a next step, every step decreases
\* a natural-number measure, no step reads outside the string, every outer
\* iteration leaves the cursor at least one position further, and every call
\* in progress eventually returns.
C2_Terminates ==
    /\ [](pc # "done" => ENABLED Next)
    /\ [](Measure >= 0 /\ reads \subseteq 0..(Len(sourceCode) - 1))
    /\ [][call' = call => Measure' < Measure]_vars
    /\ [][(pc' = "loop" /\ call' = call) => current_index' > iter_start]_vars
    /\ [](pc = "loop" => iter_start = current_index)
    /\ ((pc # "done") ~> (pc = "done"))

\* a run on a string made only of unrecognized characters has returned
C2_Witness ==
    /\ pc = "done"
    /\ Len(sourceCode) >= 2
    /\ \A i \in 0..(Len(sourceCode) - 1) : Unrecognized(At(sourceCode, i))
    /\ Len(tokens) = Len(sourceCode)

\* C3: an unrecognized character does not disturb the tokens around it: for
\* source = s1 + c + s2 with c unrecognized, the tokens returned are those of
\* s1, then the one token (ERROR, c), then those of s2.
C3_ErrorIsolated ==
    pc = "done" =>
        \A k \in 1..Len(sourceCode) :
            Unrecognized(sourceCode[k]) =>
                tokens = lexicalAnalysis(SubSeq(sourceCode, 1, k - 1))
                            \o << Token("ERROR", << sourceCode[k] >>) >>
                            \o lexicalAnalysis(SubSeq(sourceCode, k + 1, Len(sourceCode)))

\* a returned run with an unrecognized character between two tokens that are
\* not errors
C3_Witness ==
    /\ pc = "done"
    /\ \E k \in 2..(Len(tokens) - 1) :
        /\ tokens[k].type = "ERROR"
        /\ tokens[k - 1].type # "ERROR"
        /\ tokens[k + 1].type # "ERROR"
        /\ Unrecognized(At(sourceCode, spans[k].from))

\* int, float, if, else, while, return, void
ReservedWords ==
    { <<105, 110, 116>>, <<102, 108, 111, 97, 116>>, <<105, 102>>,
      <<101, 108, 115, 101>>, <<119, 104, 105, 108, 101>>,
      <<114, 101, 116, 117, 114, 110>>, <<118, 111, 105, 100>> }

RECURSIVE RunEnd(_, _, _)
\* the end of the maximal run of characters of the set cls that starts at i
RunEnd(s, i, cls) ==
    IF i < Len(s) /\ At(s, i) \in cls THEN RunEnd(s, i + 1, cls) ELSE i

Letters == (97..122) \cup (65..90)
Digits == 48..57

\* the maximal run of letters and digits that starts at position i
WordRun(s, i) == SubSeq(s, i + 1, RunEnd(s, i, Letters \cup Digits))

\* the token the claim gives the word that starts at position i
WordToken(s, i) ==
    Token(IF WordRun(s, i) \in ReservedWords THEN "KEYWORD" ELSE "IDENTIFIER",
          WordRun(s, i))

\* C4: maximal munch for words: from a scan position that holds a letter,
\* exactly one token is emitted, its lexeme is the whole maximal run of
\* letters and digits starting there, and it is a KEYWORD if and only if that
\* lexeme is one of the seven reserved words, otherwise an IDENTIFIER.
C4_MaximalMunchWords ==
    /\ [][(pc = "loop" /\ current_index < Len(sourceCode)
              /\ At(sourceCode, current_index) \in Letters)
            => (pc' = "ident" /\ tokens' = tokens /\ iter_start' = current_index)]_vars
    /\ [][pc = "ident"
            => \/ /\ pc' = "ident"
                  /\ tokens' = tokens
                  /\ iter_start' = iter_start
                  /\ current_index' <= iter_start + Len(WordRun(sourceCode, iter_start))
               \/ /\ pc' = "loop"
                  /\ tokens' = Append(tokens, WordToken(sourceCode, iter_start))
                  /\ current_index' = iter_start + Len(WordRun(sourceCode, iter_start))]_vars
    /\ [](\A k \in 1..Len(tokens) :
            tokens[k].type \in {"KEYWORD", "IDENTIFIER"} =>
                /\ At(sourceCode, spans[k].from) \in Letters
                /\ tokens[k] = WordToken(sourceCode, spans[k].from))

\* after an earlier token, a word that has a reserved word as a proper prefix
\* has been emitted as IDENTIFIER
C4_Witness ==
    /\ pc = "loop"
    /\ \E k \in 2..Len(tokens) :
        /\ tokens[k].type = "IDENTIFIER"
        /\ \E n \in 1..(Len(tokens[k].value) - 1) :
            SubSeq(tokens[k].value, 1, n) \in ReservedWords

\* C5: when the scan position holds '=', '<' or '>' and the next position
\* exists and holds '=', the step emits exactly one RELATIONAL_OPERATOR token
\* with the two-character lexeme and moves the cursor by two; no token starts
\* at the second of the two characters, and none but the RELATIONAL_OPERATOR
\* at the first.
C5_RelationalLookahead ==
    /\ [][(pc = "loop" /\ current_index + 1 < Len(sourceCode)
              /\ At(sourceCode, current_index) \in {61, 60, 62}
              /\ At(sourceCode, current_index + 1) = 61)
            => /\ tokens' = Append(tokens,
                        Token("RELATIONAL_OPERATOR",
                              << At(sourceCode, current_index), 61 >>))
               /\ current_index' = current_index + 2
               /\ pc' = "loop"]_vars
    /\ [](\A k \in 1..Len(tokens) :
            tokens[k].type = "RELATIONAL_OPERATOR" =>
                /\ tokens[k].value \in { <<61, 61>>, <<60, 61>>, <<62, 61>> }
                /\ \A j \in 1..Len(tokens) :
                    j # k => spans[j].from \notin {spans[k].from, spans[k].from + 1})

\* "<=" or ">=" has been emitted, and a token after it
C5_Witness ==
    \E k \in 1..(Len(tokens) - 1) :
        /\ tokens[k].type = "RELATIONAL_OPERATOR"
        /\ tokens[k].value # <<61, 61>>

\* C6: every DELIMITER token has a lexeme that is one of / ; ( ) { }
C6_DelimiterSet ==
    \A k \in 1..Len(tokens) :
        tokens[k].type = "DELIMITER" =>
            tokens[k].value \in { <<47>>, <<59>>, <<40>>, <<41>>, <<123>>, <<125>> }

\* C7: the returned sequence is empty if and only if the input has no
\* character other than space, tab, newline and carriage return.
C7_EmptyIffBlank ==
    pc = "done" =>
        (returned[call] = <<>>
            <=> \A i \in 0..(Len(sourceCode) - 1) : At(sourceCode, i) \in BlankChars)

\* a run on a string of several blank characters, a carriage return among
\* them, has returned the empty sequence
C7_Witness ==
    /\ pc = "done"
    /\ returned[call] = <<>>
    /\ Len(sourceCode) >= 2
    /\ \E i \in 0..(Len(sourceCode) - 1) : At(sourceCode, i) = 13

\* C8: determinism: a later call on the same string, stepped beside the first
\* call, has after every step the cursor and the token sequence the first
\* call had after as many steps, and returns the sequence the first returned.
C8_Deterministic ==
    /\ step + 1 <= Len(trace)
    /\ trace[step + 1] = Snapshot(current_index, tokens)
    /\ \A k \in 1..Len(returned) : returned[k] = returned[1]
    /\ pc = "done" => step + 1 = Len(trace)

\* a second call has returned several tokens
C8_Witness ==
    /\ call = 2
    /\ pc = "done"
    /\ Len(returned) = 2
    /\ Len(returned[2]) >= 2

\* s is t or a beginning of t
IsPrefix(s, t) == Len(s) <= Len(t) /\ SubSeq(t, 1, Len(s)) = s

\* C9: the token sequence is append-only during a run: after every step it
\* has the sequence before the step as a prefix; and the tokens are in the
\* order of their start positions in the source.
C9_AppendOnly ==
    /\ [][call' = call => IsPrefix(tokens, tokens')]_vars
    /\ [][call' = call => Len(tokens') <= Len(tokens) + 1]_vars
    /\ [](\A k \in 1..(Len(tokens) - 1) : spans[k].from < spans[k + 1].from)
    /\ [](\A k \in 1..Len(tokens) :
            /\ spans[k].to <= Len(sourceCode)
            /\ tokens[k].value = SubSeq(sourceCode, spans[k].from + 1, spans[k].to))

\* a word is being accumulated after three tokens have been emitted
C9_Witness ==
    /\ pc = "ident"
    /\ Len(tokens) >= 3

\* C10: the cursor never decreases and stays within 0..length; the run ends
\* exactly when the loop test finds cursor = length; and no step reads a
\* position below the cursor it starts with, so that a consumed character is
\* never read again.
C10_CursorMonotone ==
    /\ [](current_index >= 0 /\ current_index <= Len(sourceCode))
    /\ [](pc = "done" => current_index = Len(sourceCode))
    /\ [][call' = call => current_index' >= current_index]_vars
    /\ [][call' = call =>
            ((pc = "loop" /\ current_index = Len(sourceCode)) <=> pc' = "done")]_vars
    /\ [][call' = call =>
            \A r \in reads' : r >= current_index /\ r <= current_index + 1]_vars

\* a step has read the character after the cursor and consumed both
C10_Witness ==
    /\ pc = "loop"
    /\ current_index >= 3
    /\ (current_index - 1) \in reads
    /\ (current_index - 2) \in reads

\* C11: every emitted token has a non-empty text, and that text is exactly
\* the substring of the source between the cursor at the start of the outer
\* iteration that emitted it and the cursor right after that iteration.
C11_LexemeIsCursorSpan ==
    /\ [][Len(tokens') = Len(tokens) + 1 =>
            LET t == tokens'[Len(tokens')] IN
            /\ Len(t.value) >= 1
            /\ iter_start < current_index'
            /\ t.value = SubSeq(sourceCode, iter_start + 1, current_index')
            /\ pc' = "loop"]_vars
    /\ [](\A k \in 1..Len(tokens) :
            /\ Len(tokens[k].value) >= 1
            /\ tokens[k].value = SubSeq(sourceCode, spans[k].from + 1, spans[k].to))

\* tokens of one, two and more than two characters have been emitted
C11_Witness ==
    /\ pc = "loop"
    /\ \E i, j, k \in 1..Len(tokens) :
        /\ Len(tokens[i].value) = 1
        /\ Len(tokens[j].value) = 2
        /\ Len(tokens[k].value) >= 3

\* the maximal run of digits that starts at position i
DigitRun(s, i) == SubSeq(s, i + 1, RunEnd(s, i, Digits))

\* the token the last step added, if it added one
Added(before, after) ==
    IF Len(after) = Len(before) + 1 /\ SubSeq(after, 1, Len(before)) = before
    THEN { after[Len(after)] } ELSE {}

\* C14: maximal munch for integers: from a scan position that holds a digit,
\* exactly one INTEGER token is emitted, its lexeme is the whole maximal run
\* of digits starting there, and the character that ends the run is not
\* consumed: the cursor rests on it and the next start-state step reads it.
C14_MaximalMunchIntegers ==
    /\ [][(pc = "loop" /\ current_index < Len(sourceCode)
              /\ At(sourceCode, current_index) \in Digits)
            => (pc' = "int" /\ tokens' = tokens /\ iter_start' = current_index)]_vars
    /\ [][pc = "int"
            => \/ /\ pc' = "int"
                  /\ tokens' = tokens
                  /\ iter_start' = iter_start
                  /\ current_index' <= iter_start + Len(DigitRun(sourceCode, iter_start))
               \/ /\ pc' = "loop"
                  /\ tokens' = Append(tokens,
                        Token("INTEGER", DigitRun(sourceCode, iter_start)))
                  /\ current_index' = current_index
                  /\ current_index = iter_start + Len(DigitRun(sourceCode, iter_start))]_vars
    /\ [][(pc = "loop" /\ current_index < Len(sourceCode))
            => current_index \in reads']_vars
    /\ [](\A k \in 1..Len(tokens) :
            tokens[k].type = "INTEGER" =>
                /\ At(sourceCode, spans[k].from) \in Digits
                /\ tokens[k].value = DigitRun(sourceCode, spans[k].from)
                /\ spans[k].to < Len(sourceCode)
                    => At(sourceCode, spans[k].to) \notin Digits)

\* an INTEGER of two digits has been emitted and, starting at the letter
\* that ended it, an IDENTIFIER
C14_Witness ==
    \E k \in 1..(Len(tokens) - 1) :
        /\ tokens[k].type = "INTEGER"
        /\ Len(tokens[k].value) = 2
        /\ tokens[k + 1].type = "IDENTIFIER"
        /\ spans[k + 1].from = spans[k].to

\* "x1 = 42;"
AssignmentExample == <<120, 49, 32, 61, 32, 52, 50, 59>>

\* the scan position holds a lone '=': the next position does not exist or
\* does not hold '='
LoneEquals ==
    /\ pc = "loop"
    /\ current_index < Len(sourceCode)
    /\ At(sourceCode, current_index) = 61
    /\ (current_index + 1 < Len(sourceCode) => At(sourceCode, current_index + 1) # 61)

\* C15: an ASSIGNMENT_OPERATOR token is emitted exactly when the scan
\* position holds '=' and the next position does not exist or does not hold
\* '='; its lexeme is always "="; "x1 = 42;" and "===" give the tokens the
\* claim lists.
C15_AssignmentOperator ==
    /\ [][call' = call =>
            (LoneEquals <=>
                \E t \in Added(tokens, tokens') : t.type = "ASSIGNMENT_OPERATOR")]_vars
    /\ [](\A k \in 1..Len(tokens) :
            tokens[k].type = "ASSIGNMENT_OPERATOR" => tokens[k].value = <<61>>)
    /\ []((pc = "done" /\ sourceCode = <<61, 61, 61>>) =>
            tokens = << Token("RELATIONAL_OPERATOR", <<61, 61>>),
                        Token("ASSIGNMENT_OPERATOR", <<61>>) >>)
    /\ [](lexicalAnalysis(AssignmentExample) =
            << Token("IDENTIFIER", <<120, 49>>),
               Token("ASSIGNMENT_OPERATOR", <<61>>),
               Token("INTEGER", <<52, 50>>),
               Token("DELIMITER", <<59>>) >>)

\* the run on "===" has returned
C15_Witness ==
    /\ pc = "done"
    /\ sourceCode = <<61, 61, 61>>
    /\ Len(tokens) = 2

\* C16: a start-state step on a space, tab, newline or carriage return moves
\* the cursor by exactly one and leaves the token sequence unchanged; no
\* lexeme contains such a character.
C16_WhitespaceStep ==
    /\ [][(pc = "loop" /\ current_index < Len(sourceCode)
              /\ At(sourceCode, current_index) \in BlankChars)
            => /\ current_index' = current_index + 1
               /\ tokens' = tokens
               /\ pc' = "loop"]_vars
    /\ [](\A k \in 1..Len(tokens) :
            \A i \in 1..Len(tokens[k].value) : tokens[k].value[i] \notin BlankChars)

\* a tab, a newline and a carriage return have been skipped after a token
C16_Witness ==
    /\ pc = "loop"
    /\ Len(tokens) >= 1
    /\ current_index >= 4
    /\ reads = {current_index - 1}
    /\ At(sourceCode, current_index - 1) = 13
    /\ At(sourceCode, current_index - 2) = 10
    /\ At(sourceCode, current_index - 3) = 9
    /\ spans[Len(spans)].to = current_index - 3

\* C17: every read of a source character is in bounds: each position a step
\* reads is within 0..length-1; the start-state step reads the cursor
\* position, and at the last character neither the lookahead nor an
\* accumulation loop reads past the end.
C17_ReadsInBounds ==
    /\ [](\A r \in reads : r >= 0 /\ r < Len(sourceCode))
    /\ [][(pc = "loop" /\ current_index < Len(sourceCode))
            => current_index \in reads']_vars
    /\ [][(pc = "loop" /\ current_index + 1 = Len(sourceCode))
            => reads' = {current_index}]_vars
    /\ [][(pc \in {"ident", "int"} /\ call' = call)
            => reads' = (IF current_index < Len(sourceCode)
                         THEN {current_index} ELSE {})]_vars

\* the last character of the input, a '<', has just been turned into a token
C17_Witness ==
    /\ pc = "loop"
    /\ Len(sourceCode) >= 2
    /\ current_index = Len(sourceCode)
    /\ At(sourceCode, current_index - 1) = 60
    /\ reads = {current_index - 1}
    /\ Len(tokens) >= 2

\* C18: whitespace is a hard token boundary: for source = s1 + w + s2 with w
\* a non-empty string of whitespace characters, the tokens returned are those
\* of s1 followed by those of s2; "= =" gives two ASSIGNMENT_OPERATOR tokens.
C18_WhitespaceBoundary ==
    /\ pc = "done" =>
        \A i \in 1..Len(sourceCode) : \A j \in i..Len(sourceCode) :
            (\A k \in i..j : sourceCode[k] \in BlankChars) =>
                tokens = lexicalAnalysis(SubSeq(sourceCode, 1, i - 1))
                            \o lexicalAnalysis(SubSeq(sourceCode, j + 1, Len(sourceCode)))
    /\ (pc = "done" /\ sourceCode = <<61, 32, 61>>) =>
        tokens = << Token("ASSIGNMENT_OPERATOR", <<61>>),
                    Token("ASSIGNMENT_OPERATOR", <<61>>) >>

\* the run on "= =" has returned
C18_Witness ==
    /\ pc = "done"
    /\ sourceCode = <<61, 32, 61>>
    /\ Len(tokens) = 2

\* C19: lexeme length is fixed by kind: a RELATIONAL_OPERATOR lexeme has
\* exactly two characters, an ARITHMETIC_OPERATOR, ASSIGNMENT_OPERATOR,
\* DELIMITER or ERROR lexeme exactly one, and only KEYWORD, IDENTIFIER,
\* INTEGER and RELATIONAL_OPERATOR lexemes are longer than one character;
\* "!=" gives ERROR "!" then ASSIGNMENT_OPERATOR "=", "&&" two ERROR tokens.
C19_LengthByKind ==
    /\ \A k \in 1..Len(tokens) :
        /\ tokens[k].type = "RELATIONAL_OPERATOR" => Len(tokens[k].value) = 2
        /\ tokens[k].type \in {"ARITHMETIC_OPERATOR", "ASSIGNMENT_OPERATOR",
                               "DELIMITER", "ERROR"}
            => Len(tokens[k].value) = 1
        /\ Len(tokens[k].value) > 1
            => tokens[k].type \in {"KEYWORD", "IDENTIFIER", "INTEGER",
                                   "RELATIONAL_OPERATOR"}
    /\ lexicalAnalysis(<<33, 61>>) =
        << Token("ERROR", <<33>>), Token("ASSIGNMENT_OPERATOR", <<61>>) >>
    /\ lexicalAnalysis(<<38, 38>>) =
        << Token("ERROR", <<38>>), Token("ERROR", <<38>>) >>

\* a relational operator and an error have been emitted in one run
C19_Witness ==
    \E i, j \in 1..Len(tokens) :
        /\ tokens[i].type = "RELATIONAL_OPERATOR"
        /\ tokens[j].type = "ERROR"

(***************************************************************************)
(* The explicit automaton of the specification: the four states Start,     *)
(* InIdentifier, InInteger and InOperatorLookahead, and Halt for the end   *)
(* of the run.  A configuration is the state, the cursor, the lexeme being *)
(* accumulated and the tokens emitted.                                     *)
(***************************************************************************)
DfaConfig(state, cursor, lexeme, toks) ==
    [state |-> state, cursor |-> cursor, lexeme |-> lexeme, tokens |-> toks]

DfaInit == DfaConfig("Start", 0, <<>>, <<>>)

\* the single-character token set + - * / = > < ; ( ) { }
DfaSingleChars == {43, 45, 42, 47, 61, 62, 60, 59, 40, 41, 123, 125}

\* the kind of a lone single-character token in the taxonomy: + - * are
\* arithmetic, = is the assignment, / ; ( ) { } are delimiters; the taxonomy
\* has no row for a lone < or >, which falls to its last row
DfaSingleKind(c) ==
    IF c \in {43, 45, 42} THEN "ARITHMETIC_OPERATOR"
    ELSE IF c = 61 THEN "ASSIGNMENT_OPERATOR"
    ELSE IF c \in {47, 59, 40, 41, 123, 125} THEN "DELIMITER"
    ELSE "ERROR"

DfaWordKind(lexeme) ==
    IF lexeme \in ReservedWords THEN "KEYWORD" ELSE "IDENTIFIER"

\* one transition of the automaton on the text s
DfaStep(s, d) ==
    LET emit(kind, text, cursor) ==
            DfaConfig("Start", cursor, <<>>, Append(d.tokens, Token(kind, text)))
    IN
    CASE d.state = "Start" ->
            IF d.cursor >= Len(s) THEN DfaConfig("Halt", d.cursor, <<>>, d.tokens)
            ELSE LET c == At(s, d.cursor) IN
                IF c \in BlankChars
                THEN DfaConfig("Start", d.cursor + 1, <<>>, d.tokens)
                ELSE IF c \in Letters
                THEN DfaConfig("InIdentifier", d.cursor + 1, << c >>, d.tokens)
                ELSE IF c \in Digits
                THEN DfaConfig("InInteger", d.cursor + 1, << c >>, d.tokens)
                ELSE IF c \in DfaSingleChars
                THEN DfaConfig("InOperatorLookahead", d.cursor, << c >>, d.tokens)
                ELSE emit("ERROR", << c >>, d.cursor + 1)
      [] d.state = "InIdentifier" ->
            IF d.cursor < Len(s) /\ At(s, d.cursor) \in Letters \cup Digits
            THEN DfaConfig("InIdentifier", d.cursor + 1,
                           Append(d.lexeme, At(s, d.cursor)), d.tokens)
            ELSE emit(DfaWordKind(d.lexeme), d.lexeme, d.cursor)
      [] d.state = "InInteger" ->
            IF d.cursor < Len(s) /\ At(s, d.cursor) \in Digits
            THEN DfaConfig("InInteger", d.cursor + 1,
                           Append(d.lexeme, At(s, d.cursor)), d.tokens)
            ELSE emit("INTEGER", d.lexeme, d.cursor)
      [] d.state = "InOperatorLookahead" ->
            LET c == At(s, d.cursor) IN
            IF c \in {61, 60, 62} /\ d.cursor + 1 < Len(s) /\ At(s, d.cursor + 1) = 61
            THEN emit("RELATIONAL_OPERATOR", << c, 61 >>, d.cursor + 2)
            ELSE emit(DfaSingleKind(c), << c >>, d.cursor + 1)
      [] OTHER -> d

\* the transitions the automaton makes while the code makes one step: the
\* code decides an operator within the step that reads it, the automaton
\* passes through InOperatorLookahead
DfaMove(s, d) ==
    LET e == DfaStep(s, d) IN
    IF e.state = "InOperatorLookahead" THEN DfaStep(s, e) ELSE e

RECURSIVE DfaRun(_, _)
\* the configuration in which the automaton halts
DfaRun(s, d) == IF d.state = "Halt" THEN d ELSE DfaRun(s, DfaStep(s, d))

\* the configuration of the automaton that the state of the code stands for
CodeConfig ==
    DfaConfig(CASE pc = "loop" -> "Start"
                [] pc = "ident" -> "InIdentifier"
                [] pc = "int" -> "InInteger"
                [] OTHER -> "Halt",
              current_index, current_lexeme, tokens)

\* C13: the loop of lexicalAnalysis and the explicit four-state automaton,
\* run side by side on the same input, consume the same characters in the
\* same order, emit the same tokens at the same cursor positions and return
\* the same sequence.
C13_RefinesAutomaton ==
    /\ [](step = 0 => CodeConfig = DfaInit)
    /\ [][call' = call => CodeConfig' = DfaMove(sourceCode, CodeConfig)]_vars
    /\ [](pc = "done" => returned[call] = DfaRun(sourceCode, DfaInit).tokens)

\* the part of C12 about a file that does not open: main writes the error
\* and ends, lexicalAnalysis is never called and no token is printed
OpenFailureEndsMain ==
    ~file.opens =>
        /\ pc = "uncalled"
        /\ printed = <<>>
        /\ main_pc \in {"open", "exit1"}
        /\ main_pc = "exit1" <=> error_reported

\* C12: if the source file cannot be opened, the program reports the error
\* and ends without invoking lexicalAnalysis and without printing a token;
\* lexicalAnalysis is invoked only after a successful open and a complete
\* read of the file.
C12_AnalysisOnlyAfterOpenAndRead ==
    /\ OpenFailureEndsMain
    /\ pc # "uncalled" =>
        /\ file.opens
        /\ file.readable
        /\ sourceCode = file.contents

====
